---- MODULE Spec2Model ----
(***************************************************************************)
(* Model of the event-log export pipeline of cvat/apps/events/export.py:   *)
(* the request handler export(), the RQ job records and work queue it      *)
(* drives, the producer _create_csv() run by the RQ workers, the artifact  *)
(* files and the deferred cache-cleaning jobs.                             *)
(***************************************************************************)
EXTENDS Integers, Sequences, FiniteSets, TLC

VARIABLES
    jobs,      \* job id -> the RQ job hash stored under it (Absent if none)
    queue,     \* the job ids waiting on the RQ queue, oldest first
    workers,   \* worker -> the _create_csv call it is running (Idle if none)
    files,     \* path -> the file at the path (NoFile if none)
    cleanups,  \* the clear_export_cache jobs the scheduler holds
    now,       \* the clock the file system takes ctimes from
    issued,    \* the callers uuid.uuid4() generated a query id for, in order
    inflight,  \* handler -> the request it has fetched the job for
    resp       \* the response of the handler that returned in the last step

vars == <<jobs, queue, workers, files, cleanups, now, issued, inflight, resp>>

(* ------------------------------ bounds -------------------------------- *)

\* number of file writes (values of the ctime clock) explored
MaxClock == 2
\* number of RQ worker processes
NumWorkers == 2
\* number of identifiers uuid.uuid4() hands out
MaxUuid == 1
\* number of requests in flight at once when requests interleave
MaxInflight == 2
\* number of job ids waiting on the queue when requests interleave
MaxQueue == 2

(* ------------------------------ values -------------------------------- *)

\* Python's None for the string-valued request parameters
None == "None"
\* Python's None for a parsed timestamp; a present timestamp t is <<t>>
NoneTs == <<>>

\* DEFAULT_CACHE_TTL = timedelta(hours=1), in seconds
DEFAULT_CACHE_TTL == 3600

\* the principals (request.user)
Users == {"u1", "u2"}
\* the query-id values callers make up themselves
SuppliedIds == {"q1"}
\* the values uuid.uuid4() returns, in the order it returns them
Uuid(n) == IF n = 1 THEN "g1" ELSE IF n = 2 THEN "g2" ELSE "g3"
Uuids == {Uuid(n) : n \in 1..MaxUuid}
QueryIds == SuppliedIds \cup Uuids

\* dateutil's parser.parse(s).timestamp() on the date strings of the domain
parse_timestamp(s) ==
    CASE s = "1970-01-01T00:00:00Z" -> 0
      [] s = "1970-01-01T00:00:01Z" -> 1
      [] s = "1970-01-01T00:00:02Z" -> 2
      [] OTHER -> 3

\* truth value of a string-or-None parameter (None and "" are falsy)
Truthy(v) == v # None /\ v # ""
\* truth value of a parsed timestamp (None and 0.0 are falsy)
TruthyTs(t) == t # NoneTs /\ t[1] # 0

\* f"export:csv-logs-{query_id}-by-{request.user}"
rq_id(query_id, user) == "export:csv-logs-" \o query_id \o "-by-" \o user
\* os.path.join(settings.TMP_FILES_ROOT, f"{query_id}.csv")
output_filename(query_id) == "/tmp/" \o query_id \o ".csv"

\* callers and made-up query ids that contain the separator "-by-", as
\* <<query id, user>> pairs
NamePairs == {<<"q-by-u", "v">>, <<"q", "u-by-v">>}
NameIds == {p[1] : p \in NamePairs}

JobIds == {rq_id(q, u) : q \in QueryIds, u \in Users}
              \cup {rq_id(p[1], p[2]) : p \in NamePairs}
Paths == {output_filename(q) : q \in QueryIds \cup NameIds}

(* --------------------------- record shapes ---------------------------- *)

NoArgs == [organization |-> None, project |-> None, task |-> None, job |-> None,
           user |-> None, from |-> NoneTs, to |-> NoneTs]

\* no RQ job hash under the id: queue.fetch_job() returns None
Absent == [status |-> "absent", args |-> NoArgs, out |-> None, return_value |-> None,
           exc_info |-> None, result_ttl |-> 0, failure_ttl |-> 0]

\* no file at the path: os.path.exists() is False
NoFile == [ctime |-> 0, owner |-> None, args |-> NoArgs, complete |-> FALSE]

Idle == [pc |-> "idle", id |-> None, args |-> NoArgs, out |-> None]

\* no response: the value of resp unless the last step was a request handler
\* returning; rq_id is the job id the handler worked on (line 116) and found
\* the status of the job object it fetched (line 122)
NoResp == [status |-> 0, query_id |-> None, detail |-> None, filename |-> None,
           file |-> NoFile, rq_id |-> None, found |-> None]

exists(path) == files[path] # NoFile

(* ------------------------------ requests ------------------------------ *)

\* the query parameters of one inbound request, with request.user
Request(requester, org, project, task, job, user, from, to, action, filename, query_id) ==
    [requester |-> requester, org |-> org, project |-> project, task |-> task,
     job |-> job, user |-> user, from |-> from, to |-> to, action |-> action,
     filename |-> filename, query_id |-> query_id]

\* the query-id values the caller u can send: none, a made-up one, or one
\* that uuid.uuid4() generated for an earlier request of u
KnownIds(u) == {None} \cup SuppliedIds \cup NameIds \cup {Uuid(n) : n \in {m \in 1..Len(issued) : issued[m] = u}}

\* requests on the query ids the callers make up: one with a scope filter
\* and a valid time range, and one for each way of failing validation
Requests ==
    {Request(u, None, None, "5", None, None,
             "1970-01-01T00:00:01Z", "1970-01-01T00:00:02Z", a, f, q) :
        u \in Users, a \in {None, "download"}, f \in {None, "my.csv"}, q \in SuppliedIds}
    \cup
    {Request(u, None, "", None, None, None, None, None, None, None, q) :
        u \in Users, q \in SuppliedIds \cup {None}}
    \cup
    {Request(u, None, None, "5", None, None,
             "1970-01-01T00:00:02Z", "1970-01-01T00:00:01Z", "download", None, q) :
        u \in Users, q \in SuppliedIds \cup {None}}
    \cup
    {Request(u, None, None, "5", None, None, None, None, "cancel", None, q) :
        u \in Users, q \in SuppliedIds \cup {None}}

\* the 'from' and 'to' strings of the domain: the epoch and seconds after it
FromDates == {"1970-01-01T00:00:00Z", "1970-01-01T00:00:02Z"}
ToDates == {"1970-01-01T00:00:00Z", "1970-01-01T00:00:01Z"}

\* the scope filters of the domain: none, all empty, the first alone, the
\* last alone, all of them
Scopes ==
    {<<None, None, None, None, None>>, <<"", "", "", "", "">>,
     <<"1", None, None, None, None>>, <<None, None, None, None, "9">>,
     <<"1", "2", "5", "7", "9">>}

\* requests of one caller that vary the filters: every scope without time
\* bounds, a missing scope and a task with every pair of time bounds; every
\* action
FilterRequests ==
    {Request("u1", s[1], s[2], s[3], s[4], s[5], None, None, a, None, "q1") :
        s \in Scopes, a \in {None, "download", "cancel"}}
    \cup
    {Request("u1", e, e, e, e, e, None, None, a, None, None) :
        e \in {None, ""}, a \in {None, "download", "cancel"}}
    \cup
    {Request("u1", None, None, t, None, None, f, to, a, None, "q1") :
        t \in {"", "5"}, f \in FromDates, to \in ToDates, a \in {None, "download"}}

\* requests of one caller that leave the query id out or send one that
\* uuid.uuid4() generated for an earlier request
UuidRequests ==
    {Request("u1", None, None, "5", None, None, None, None, a, None, q) :
        a \in {None, "download"}, q \in {None} \cup Uuids}

\* requests of callers whose names and query ids contain "-by-"
NameRequests ==
    {Request(p[2], None, None, "5", None, None, None, None, a, None, p[1]) :
        p \in NamePairs, a \in {None, "download"}}

\* the requests of the domain that ask for the download
DownloadRequests == {r \in Requests : r.action = "download"}

\* requests of one caller for one query id: polls with a scope filter only
\* and download requests that add time bounds
PollRequests ==
    {Request("u1", None, None, "5", None, None, None, None, None, None, "q1"),
     Request("u1", None, None, "5", None, None,
             "1970-01-01T00:00:01Z", "1970-01-01T00:00:02Z", "download", None, "q1")}

\* requests of one caller for one query id, handled concurrently
ConcRequests ==
    {Request("u1", None, None, "5", None, None, None, None, a, None, "q1") :
        a \in {None, "download"}}

(* --------------------------- export(): parsing ------------------------ *)

\* lines 98-102: a non-empty 'from'/'to' is parsed to a timestamp (an empty
\* string stays falsy, like None)
parsed(s) == IF Truthy(s) THEN <<parse_timestamp(s)>> ELSE NoneTs

\* lines 88-102: the query_params dict handed to the producer
query_params(r) ==
    [organization |-> r.org, project |-> r.project, task |-> r.task, job |-> r.job,
     user |-> r.user, from |-> parsed(r.from), to |-> parsed(r.to)]

\* validation_error with the scope filters tested with `is not None`, so
\* that empty strings count as present
validation_error_NotNone(r) ==
    LET qp == query_params(r) IN
    IF TruthyTs(qp.from) /\ TruthyTs(qp.to) /\ qp.from[1] > qp.to[1]
    THEN "'from' must be before than 'to'"
    ELSE IF ~(qp.organization # None \/ qp.project # None \/ qp.task # None
              \/ qp.job # None \/ qp.user # None)
    THEN "One of 'org', 'project', 'task', 'job', 'user' parameter must be specified"
    ELSE IF r.action \notin {None, "download"}
    THEN "Unexpected action specified for the request"
    ELSE None

\* lines 104-113: the message of the ValidationError raised, None if none is
validation_error(r) ==
    LET qp == query_params(r) IN
    IF TruthyTs(qp.from) /\ TruthyTs(qp.to) /\ qp.from[1] > qp.to[1]
    THEN "'from' must be before than 'to'"
    ELSE IF ~(Truthy(qp.organization) \/ Truthy(qp.project) \/ Truthy(qp.task)
              \/ Truthy(qp.job) \/ Truthy(qp.user))
    THEN "One of 'org', 'project', 'task', 'job', 'user' parameter must be specified"
    ELSE IF r.action \notin {None, "download"}
    THEN "Unexpected action specified for the request"
    ELSE None

\* line 115: request.query_params.get('query-id', None) or uuid.uuid4()
query_id_of(r) == IF Truthy(r.query_id) THEN r.query_id ELSE Uuid(Len(issued) + 1)

\* line 130: filename or f"logs_{timestamp}.csv"
attachment_filename(r) == IF Truthy(r.filename) THEN r.filename ELSE "logs_%Y_%m_%d_%H_%M_%S.csv"

(* ----------------------- RQ: job records and queue -------------------- *)

\* the sequence s without its first occurrence of x: Queue.remove(job)
RECURSIVE remove_first(_, _)
remove_first(s, x) ==
    IF s = <<>> THEN <<>>
    ELSE IF Head(s) = x THEN Tail(s)
    ELSE <<Head(s)>> \o remove_first(Tail(s), x)

\* enqueued_job without failure_ttl=ttl: RQ's default lifetime of a failed
\* job (one year) applies
enqueued_job_NoFailureTtl(args, out) ==
    [status |-> "queued", args |-> args, out |-> out, return_value |-> None,
     exc_info |-> None, result_ttl |-> DEFAULT_CACHE_TTL, failure_ttl |-> 31536000]

\* lines 148-153: queue.enqueue_call(func=_create_csv, args=..., job_id=rq_id,
\* result_ttl=ttl, failure_ttl=ttl): the job hash is (re)written under the id
\* and the id is pushed on the queue
enqueued_job(args, out) ==
    [status |-> "queued", args |-> args, out |-> out, return_value |-> None,
     exc_info |-> None, result_ttl |-> DEFAULT_CACHE_TTL, failure_ttl |-> DEFAULT_CACHE_TTL]

\* rq_job.delete(): the job hash is removed; a job that is still queued is
\* also taken off the queue
queue_after_delete(id) ==
    IF jobs[id].status = "queued" THEN remove_first(queue, id) ELSE queue

(* ------------------------ export(): state machine --------------------- *)

\* line 126: rq_job.return_value, read from the store when the fetched job
\* object has no cached result
return_value_of(id, rq_job) ==
    IF rq_job.return_value # None THEN rq_job.return_value ELSE jobs[id].return_value

\* Branch with the `else` of line 143 lost: a queued or running job falls
\* through to the submission
Branch_NoAccepted(r, query_id, rq_job) ==
    LET id == rq_id(query_id, r.requester)
        status == jobs[id].status
    IN  IF rq_job = Absent THEN "submit"
        ELSE IF status = "finished"
        THEN IF r.action = "download" /\ exists(return_value_of(id, rq_job))
             THEN "download"
             ELSE IF exists(return_value_of(id, rq_job)) THEN "ready" ELSE "submit"
        ELSE IF status = "failed" THEN "failed"
        ELSE "submit"

\* Branch with a FINISHED job whose file is gone answered like a running one
Branch_EvictedAccepted(r, query_id, rq_job) ==
    LET id == rq_id(query_id, r.requester)
        status == jobs[id].status
    IN  IF rq_job = Absent THEN "submit"
        ELSE IF status = "finished"
        THEN IF r.action = "download" /\ exists(return_value_of(id, rq_job))
             THEN "download"
             ELSE IF exists(return_value_of(id, rq_job)) THEN "ready" ELSE "accepted"
        ELSE IF status = "failed" THEN "failed"
        ELSE "accepted"

\* Branch without the os.path.exists test of line 127: a download request
\* for a FINISHED job is sent the file whether it is there or not
Branch_DownloadUnchecked(r, query_id, rq_job) ==
    LET id == rq_id(query_id, r.requester)
        status == jobs[id].status
    IN  IF rq_job = Absent THEN "submit"
        ELSE IF status = "finished"
        THEN IF r.action = "download"
             THEN "download"
             ELSE IF exists(return_value_of(id, rq_job)) THEN "ready" ELSE "submit"
        ELSE IF status = "failed" THEN "failed"
        ELSE "accepted"

\* lines 124-155: the path the handler takes for the job object rq_job that
\* fetch_job returned; is_finished / is_failed read the current status
Branch(r, query_id, rq_job) ==
    LET id == rq_id(query_id, r.requester)
        status == jobs[id].status
    IN  IF rq_job = Absent THEN "submit"
        ELSE IF status = "finished"
        THEN IF r.action = "download" /\ exists(return_value_of(id, rq_job))
             THEN "download"
             ELSE IF exists(return_value_of(id, rq_job)) THEN "ready" ELSE "submit"
        ELSE IF status = "failed" THEN "failed"
        ELSE "accepted"

\* the response of a handler that worked on the job id and found rq_job
Response(status, id, rq_job) ==
    [NoResp EXCEPT !.status = status, !.rq_id = id, !.found = rq_job.status]

\* send_file without rq_job.delete()
send_file_NoDelete(r, id, rq_job) ==
    /\ UNCHANGED <<jobs, queue>>
    /\ resp' = [Response(200, id, rq_job) EXCEPT
                   !.filename = attachment_filename(r),
                   !.file = files[return_value_of(id, rq_job)]]

\* send_file with rq_job.cancel() in place of rq_job.delete(): the job hash
\* stays, with the status canceled
send_file_Cancels(r, id, rq_job) ==
    /\ jobs' = [jobs EXCEPT ![id].status = "canceled"]
    /\ queue' = queue_after_delete(id)
    /\ resp' = [Response(200, id, rq_job) EXCEPT
                   !.filename = attachment_filename(r),
                   !.file = files[return_value_of(id, rq_job)]]

\* lines 127-133: the job is deleted and the file is sent as an attachment
send_file(r, id, rq_job) ==
    /\ jobs' = [jobs EXCEPT ![id] = Absent]
    /\ queue' = queue_after_delete(id)
    /\ resp' = [Response(200, id, rq_job) EXCEPT
                   !.filename = attachment_filename(r),
                   !.file = files[return_value_of(id, rq_job)]]

\* report_created with the job deleted as on the download path
report_created_Deletes(id, rq_job) ==
    /\ jobs' = [jobs EXCEPT ![id] = Absent]
    /\ queue' = queue_after_delete(id)
    /\ resp' = Response(201, id, rq_job)

\* lines 135-137: the file is there and no download was asked for
report_created(id, rq_job) ==
    /\ resp' = Response(201, id, rq_job)
    /\ UNCHANGED <<jobs, queue>>

\* report_failed without rq_job.delete()
report_failed_NoDelete(id, rq_job) ==
    /\ UNCHANGED <<jobs, queue>>
    /\ resp' = [Response(500, id, rq_job) EXCEPT !.detail = rq_job.exc_info]

\* lines 138-142: the error of a failed job is reported and the job deleted
report_failed(id, rq_job) ==
    /\ jobs' = [jobs EXCEPT ![id] = Absent]
    /\ queue' = queue_after_delete(id)
    /\ resp' = [Response(500, id, rq_job) EXCEPT !.detail = rq_job.exc_info]

\* report_accepted waiting for the producer: the handler returns only when
\* the job is no longer queued or running
report_accepted_Waits(id, query_id, rq_job) ==
    /\ jobs[id].status \notin {"queued", "started"}
    /\ resp' = [Response(202, id, rq_job) EXCEPT !.query_id = query_id]
    /\ UNCHANGED <<jobs, queue>>

\* report_accepted pushing the job id on the queue again
report_accepted_Requeues(id, query_id, rq_job) ==
    /\ Len(queue) < MaxQueue
    /\ resp' = [Response(202, id, rq_job) EXCEPT !.query_id = query_id]
    /\ queue' = Append(queue, id)
    /\ UNCHANGED jobs

\* lines 143-144: the job is queued or running
report_accepted(id, query_id, rq_job) ==
    /\ resp' = [Response(202, id, rq_job) EXCEPT !.query_id = query_id]
    /\ UNCHANGED <<jobs, queue>>

\* submit answering 202 without response_data
submit_NoQueryId(r, id, query_id, rq_job) ==
    /\ Len(queue) < MaxQueue
    /\ jobs' = [jobs EXCEPT ![id] =
                   enqueued_job(query_params(r), output_filename(query_id))]
    /\ queue' = Append(queue, id)
    /\ resp' = Response(202, id, rq_job)

\* lines 146-155: the producer is enqueued under the job id
submit(r, id, query_id, rq_job) ==
    /\ Len(queue) < MaxQueue
    /\ jobs' = [jobs EXCEPT ![id] =
                   enqueued_job(query_params(r), output_filename(query_id))]
    /\ queue' = Append(queue, id)
    /\ resp' = [Response(202, id, rq_job) EXCEPT !.query_id = query_id]

\* dispatch enqueueing the producer with the filters of the request also
\* when the job is queued or running
dispatch_AcceptedSubmits(r, query_id, rq_job) ==
    LET id == rq_id(query_id, r.requester)
        b == Branch(r, query_id, rq_job)
    IN  CASE b = "download" -> send_file(r, id, rq_job)
          [] b = "ready" -> report_created(id, rq_job)
          [] b = "failed" -> report_failed(id, rq_job)
          [] b = "accepted" -> submit(r, id, query_id, rq_job)
          [] b = "submit" -> submit(r, id, query_id, rq_job)

\* lines 124-155 of export(), for a validated request
dispatch(r, query_id, rq_job) ==
    LET id == rq_id(query_id, r.requester)
        b == Branch(r, query_id, rq_job)
    IN  CASE b = "download" -> send_file(r, id, rq_job)
          [] b = "ready" -> report_created(id, rq_job)
          [] b = "failed" -> report_failed(id, rq_job)
          [] b = "accepted" -> report_accepted(id, query_id, rq_job)
          [] b = "submit" -> submit(r, id, query_id, rq_job)

\* export with the action checked only after the job was fetched and a
\* failed job deleted
export_LateActionCheck(r) ==
    /\ r.query_id \in KnownIds(r.requester)
    /\ IF validation_error(r) = "Unexpected action specified for the request"
          /\ Truthy(r.query_id)
       THEN /\ resp' = [NoResp EXCEPT !.status = 400, !.detail = validation_error(r)]
            /\ jobs' = [jobs EXCEPT ![rq_id(r.query_id, r.requester)] =
                           IF @.status = "failed" THEN Absent ELSE @]
            /\ UNCHANGED <<queue, issued>>
       ELSE IF validation_error(r) # None
       THEN /\ resp' = [NoResp EXCEPT !.status = 400, !.detail = validation_error(r)]
            /\ UNCHANGED <<jobs, queue, issued>>
       ELSE /\ Truthy(r.query_id) \/ Len(issued) < MaxUuid
            /\ issued' = IF Truthy(r.query_id) THEN issued ELSE Append(issued, r.requester)
            /\ dispatch(r, query_id_of(r), jobs[rq_id(query_id_of(r), r.requester)])
    /\ UNCHANGED <<workers, files, cleanups, now, inflight>>

\* export removing the file once it has been sent to a download request
export_RemovesSentFile(r) ==
    /\ r.query_id \in KnownIds(r.requester)
    /\ LET error == validation_error(r) IN
       IF error # None
       THEN /\ resp' = [NoResp EXCEPT !.status = 400, !.detail = error]
            /\ UNCHANGED <<jobs, queue, issued, files>>
       ELSE /\ Truthy(r.query_id) \/ Len(issued) < MaxUuid
            /\ issued' = IF Truthy(r.query_id) THEN issued ELSE Append(issued, r.requester)
            /\ dispatch(r, query_id_of(r), jobs[rq_id(query_id_of(r), r.requester)])
            /\ files' = IF resp'.status = 200
                        THEN [files EXCEPT
                                 ![jobs[rq_id(query_id_of(r), r.requester)].return_value] = NoFile]
                        ELSE files
    /\ UNCHANGED <<workers, cleanups, now, inflight>>

\* export(request, queue_name), one request handled without interruption
export(r) ==
    /\ r.query_id \in KnownIds(r.requester)
    /\ LET error == validation_error(r) IN
       IF error # None
       THEN /\ resp' = [NoResp EXCEPT !.status = 400, !.detail = error]
            /\ UNCHANGED <<jobs, queue, issued>>
       ELSE /\ Truthy(r.query_id) \/ Len(issued) < MaxUuid
            /\ issued' = IF Truthy(r.query_id) THEN issued ELSE Append(issued, r.requester)
            /\ dispatch(r, query_id_of(r), jobs[rq_id(query_id_of(r), r.requester)])
    /\ UNCHANGED <<workers, files, cleanups, now, inflight>>

(* ------------------ export(): interleaved request handling ------------ *)

NoRequest == Request(None, None, None, None, None, None, None, None, None, None, None)
NoHandler == [pc |-> "idle", r |-> NoRequest, query_id |-> None, rq_job |-> Absent]

\* lines 85-122: validation, the query id and queue.fetch_job(rq_id)
export_fetch(h, r) ==
    /\ inflight[h] = NoHandler
    /\ r.query_id \in KnownIds(r.requester)
    /\ LET error == validation_error(r) IN
       IF error # None
       THEN /\ resp' = [NoResp EXCEPT !.status = 400, !.detail = error]
            /\ UNCHANGED <<issued, inflight>>
       ELSE /\ Truthy(r.query_id) \/ Len(issued) < MaxUuid
            /\ issued' = IF Truthy(r.query_id) THEN issued ELSE Append(issued, r.requester)
            /\ inflight' = [inflight EXCEPT ![h] =
                  [pc |-> "fetched", r |-> r, query_id |-> query_id_of(r),
                   rq_job |-> jobs[rq_id(query_id_of(r), r.requester)]]]
            /\ resp' = NoResp
    /\ UNCHANGED <<jobs, queue, workers, files, cleanups, now>>

\* lines 124-155, run by a handler that has fetched its job object
export_dispatch(h) ==
    /\ inflight[h].pc = "fetched"
    /\ dispatch(inflight[h].r, inflight[h].query_id, inflight[h].rq_job)
    /\ inflight' = [inflight EXCEPT ![h] = NoHandler]
    /\ UNCHANGED <<workers, files, cleanups, now, issued>>

\* lines 85-128 for a download request that finds its job FINISHED and the
\* file present: the file is tested (127) and the job deleted (128), the
\* file is not sent yet; any other request is handled in one step
export_begin(h, r) ==
    /\ inflight[h] = NoHandler
    /\ IF /\ validation_error(r) = None
          /\ Truthy(r.query_id)
          /\ Branch(r, r.query_id, jobs[rq_id(r.query_id, r.requester)]) = "download"
       THEN /\ r.query_id \in KnownIds(r.requester)
            /\ jobs' = [jobs EXCEPT ![rq_id(r.query_id, r.requester)] = Absent]
            /\ queue' = queue_after_delete(rq_id(r.query_id, r.requester))
            /\ inflight' = [inflight EXCEPT ![h] =
                  [pc |-> "sending", r |-> r, query_id |-> r.query_id,
                   rq_job |-> jobs[rq_id(r.query_id, r.requester)]]]
            /\ resp' = NoResp
            /\ UNCHANGED <<workers, files, cleanups, now, issued>>
       ELSE export(r)

\* lines 129-133: sendfile() opens the file at the path the job returned and
\* sends it; it answers 404 when there is no file at the path
export_sendfile(h) ==
    /\ inflight[h].pc = "sending"
    /\ LET id == rq_id(inflight[h].query_id, inflight[h].r.requester)
           path == inflight[h].rq_job.return_value
       IN  resp' = IF exists(path)
                   THEN [Response(200, id, inflight[h].rq_job) EXCEPT
                            !.filename = attachment_filename(inflight[h].r),
                            !.file = files[path]]
                   ELSE Response(404, id, inflight[h].rq_job)
    /\ inflight' = [inflight EXCEPT ![h] = NoHandler]
    /\ UNCHANGED <<jobs, queue, workers, files, cleanups, now, issued>>

(* --------------------- RQ worker running _create_csv ------------------ *)

Workers == 1..NumWorkers
Handlers == 1..MaxInflight

\* the worker pops the next job id; a job whose hash is gone is skipped,
\* any other is marked started and executed with the stored arguments
worker_dequeue(w) ==
    /\ workers[w] = Idle
    /\ queue # <<>>
    /\ queue' = Tail(queue)
    /\ LET id == Head(queue) IN
       IF jobs[id] = Absent
       THEN UNCHANGED <<jobs, workers>>
       ELSE /\ jobs' = [jobs EXCEPT ![id].status = "started"]
            /\ workers' = [workers EXCEPT ![w] =
                  [pc |-> "query", id |-> id, args |-> jobs[id].args, out |-> jobs[id].out]]
    /\ UNCHANGED <<files, cleanups, now, issued, inflight>>
    /\ resp' = NoResp

\* the rows of the events table of the analytical store: one task with an
\* event at the epoch and at each of the seconds after it, and an event of
\* another task
Events ==
    {[organization |-> "1", project |-> "2", task |-> "5", job |-> "7",
      user |-> "9", timestamp |-> t] : t \in 0..3}
    \cup
    {[organization |-> "1", project |-> "2", task |-> "6", job |-> "8",
      user |-> "9", timestamp |-> 1]}

\* result.column_names of `SELECT * FROM events`
column_names == <<"organization", "project", "task", "job", "user", "timestamp">>

\* the keys left in query_params after 'from' and 'to' are popped (29-32)
ScopeParams == {"organization", "project", "task", "job", "user"}

\* lines 34-48: the conditions of the WHERE clause with their parameters, as
\* <<column, operator, value>>; a falsy value adds no condition
conditions(qp) ==
    {<<param, "=", qp[param]>> : param \in {k \in ScopeParams : Truthy(qp[k])}}
    \cup (IF TruthyTs(qp.from) THEN {<<"timestamp", ">=", qp.from[1]>>} ELSE {})
    \cup (IF TruthyTs(qp.to) THEN {<<"timestamp", "<=", qp.to[1]>>} ELSE {})

\* lines 36-48: the `parameters` dict bound to the query, as <<key, value>>
\* pairs
parameters(qp) ==
    {<<param, qp[param]>> : param \in {k \in ScopeParams : Truthy(qp[k])}}
    \cup (IF TruthyTs(qp.from) THEN {<<"from", qp.from[1]>>} ELSE {})
    \cup (IF TruthyTs(qp.to) THEN {<<"to", qp.to[1]>>} ELSE {})

\* the row e satisfies the condition c
satisfies(e, c) ==
    CASE c[2] = "=" -> e[c[1]] = c[3]
      [] c[2] = ">=" -> e[c[1]] >= c[3]
      [] c[2] = "<=" -> e[c[1]] <= c[3]

\* lines 50-60: result.result_rows, the rows that satisfy all the conditions
\* (every row when there is no condition)
result_rows(qp) == {e \in Events : \A c \in conditions(qp) : satisfies(e, c)}

\* lines 62-65: the rows of the csv file that a run with the arguments the
\* file records has written in full
csv_rows(file) == result_rows(file.args)

\* lines 26-65: the query is built and run and the csv file is written
create_csv_write(w) ==
    /\ workers[w].pc = "query"
    /\ now < MaxClock
    /\ now' = now + 1
    /\ files' = [files EXCEPT ![workers[w].out] =
          [ctime |-> now + 1, owner |-> workers[w].id, args |-> workers[w].args,
           complete |-> TRUE]]
    /\ workers' = [workers EXCEPT ![w].pc = "written"]
    /\ UNCHANGED <<jobs, queue, cleanups, issued, inflight>>
    /\ resp' = NoResp

\* the job hash the worker saves when the job function ends
job_result(w, status, rv, exc) ==
    [status |-> status, args |-> workers[w].args, out |-> workers[w].out,
     return_value |-> rv, exc_info |-> exc,
     result_ttl |-> DEFAULT_CACHE_TTL, failure_ttl |-> DEFAULT_CACHE_TTL]

\* create_csv_register handing the cleaning job the time of the call instead
\* of the ctime of the file
create_csv_register_WallClock(w) ==
    /\ workers[w].pc = "written"
    /\ exists(workers[w].out)
    /\ cleanups' = cleanups \cup
          {[file_path |-> workers[w].out, file_ctime |-> now + 1,
            time_delta |-> DEFAULT_CACHE_TTL]}
    /\ jobs' = [jobs EXCEPT ![workers[w].id] =
          job_result(w, "finished", workers[w].out, None)]
    /\ workers' = [workers EXCEPT ![w] = Idle]
    /\ UNCHANGED <<queue, files, now, issued, inflight>>
    /\ resp' = NoResp

\* create_csv_register without the scheduler.enqueue_in call: the path is
\* returned and no cleaning job is enqueued
create_csv_register_NoSchedule(w) ==
    /\ workers[w].pc = "written"
    /\ exists(workers[w].out)
    /\ jobs' = [jobs EXCEPT ![workers[w].id] =
          job_result(w, "finished", workers[w].out, None)]
    /\ workers' = [workers EXCEPT ![w] = Idle]
    /\ UNCHANGED <<queue, files, cleanups, now, issued, inflight>>
    /\ resp' = NoResp

\* lines 67-79: the ctime is read, the cleaning job is enqueued with it and
\* time_delta=cache_ttl (DEFAULT_CACHE_TTL, line 150) and the path is
\* returned; the worker marks the job finished
create_csv_register(w) ==
    /\ workers[w].pc = "written"
    /\ exists(workers[w].out)
    /\ cleanups' = cleanups \cup
          {[file_path |-> workers[w].out, file_ctime |-> files[workers[w].out].ctime,
            time_delta |-> DEFAULT_CACHE_TTL]}
    /\ jobs' = [jobs EXCEPT ![workers[w].id] =
          job_result(w, "finished", workers[w].out, None)]
    /\ workers' = [workers EXCEPT ![w] = Idle]
    /\ UNCHANGED <<queue, files, now, issued, inflight>>
    /\ resp' = NoResp

\* create_csv_raise with the exception logged and not re-raised: the
\* function returns the path and the worker marks the job finished
create_csv_raise_Swallowed(w, exc) ==
    /\ \/ /\ workers[w].pc = "query" /\ exc = "store"
          /\ UNCHANGED <<files, now>>
       \/ /\ workers[w].pc = "query" /\ exc = "io"
          /\ now < MaxClock
          /\ now' = now + 1
          /\ files' = [files EXCEPT ![workers[w].out] =
                [ctime |-> now + 1, owner |-> workers[w].id, args |-> workers[w].args,
                 complete |-> FALSE]]
       \/ /\ workers[w].pc = "written" /\ exc = "scheduler"
          /\ UNCHANGED <<files, now>>
    /\ jobs' = [jobs EXCEPT ![workers[w].id] = job_result(w, "finished", workers[w].out, None)]
    /\ workers' = [workers EXCEPT ![w] = Idle]
    /\ UNCHANGED <<queue, cleanups, issued, inflight>>
    /\ resp' = NoResp

\* lines 80-82: an exception in the try block is logged and re-raised; the
\* worker marks the job failed.  "store": connecting or querying failed, no
\* file is touched; "io": writing failed part-way, a partial file is left;
\* "scheduler": getctime or the enqueueing of the cleaning job failed
create_csv_raise(w, exc) ==
    /\ \/ /\ workers[w].pc = "query" /\ exc = "store"
          /\ UNCHANGED <<files, now>>
       \/ /\ workers[w].pc = "query" /\ exc = "io"
          /\ now < MaxClock
          /\ now' = now + 1
          /\ files' = [files EXCEPT ![workers[w].out] =
                [ctime |-> now + 1, owner |-> workers[w].id, args |-> workers[w].args,
                 complete |-> FALSE]]
       \/ /\ workers[w].pc = "written" /\ exc = "scheduler"
          /\ UNCHANGED <<files, now>>
    /\ jobs' = [jobs EXCEPT ![workers[w].id] = job_result(w, "failed", None, exc)]
    /\ workers' = [workers EXCEPT ![w] = Idle]
    /\ UNCHANGED <<queue, cleanups, issued, inflight>>
    /\ resp' = NoResp

\* result_ttl / failure_ttl (lines 146, 153): the store forgets the hash of a
\* finished or failed job when its lifetime is over
job_expire(id) ==
    /\ \/ jobs[id].status = "finished" /\ jobs[id].result_ttl > 0
       \/ jobs[id].status = "failed" /\ jobs[id].failure_ttl > 0
    /\ jobs' = [jobs EXCEPT ![id] = Absent]
    /\ UNCHANGED <<queue, workers, files, cleanups, now, issued, inflight>>
    /\ resp' = NoResp

(* ------------------------- cache cleaning job ------------------------- *)

\* clear_export_cache(file_path, file_ctime), enqueued at lines 69-73: the
\* file is removed if it exists and still has the ctime the task carries
clear_export_cache(t) ==
    /\ t \in cleanups
    /\ cleanups' = cleanups \ {t}
    /\ files' = IF exists(t.file_path) /\ files[t.file_path].ctime = t.file_ctime
                THEN [files EXCEPT ![t.file_path] = NoFile]
                ELSE files
    /\ UNCHANGED <<jobs, queue, workers, now, issued, inflight>>
    /\ resp' = NoResp

(* --------------------------- specifications --------------------------- *)

Init ==
    /\ jobs = [id \in JobIds |-> Absent]
    /\ queue = <<>>
    /\ workers = [w \in Workers |-> Idle]
    /\ files = [p \in Paths |-> NoFile]
    /\ cleanups = {}
    /\ now = 0
    /\ issued = <<>>
    /\ inflight = [h \in Handlers |-> NoHandler]
    /\ resp = NoResp

Tasks == [file_path : Paths, file_ctime : 1..MaxClock, time_delta : {DEFAULT_CACHE_TTL}]

\* the worker pool, the store's expiry and the cleaning jobs
Background ==
    \/ \E w \in Workers : worker_dequeue(w)
    \/ \E w \in Workers : create_csv_write(w)
    \/ \E w \in Workers : create_csv_register(w)
    \/ \E w \in Workers, exc \in {"store", "io", "scheduler"} : create_csv_raise(w, exc)
    \/ \E id \in JobIds : job_expire(id)
    \/ \E t \in Tasks : clear_export_cache(t)

\* requests are handled one at a time
Next ==
    \/ \E r \in Requests : export(r)
    \/ Background

Spec == Init /\ [][Next]_vars

\* a worker that holds a job goes on to the end of _create_csv
WorkerStep ==
    \E w \in Workers :
        \/ create_csv_write(w)
        \/ create_csv_register(w)
        \/ \E exc \in {"store", "io", "scheduler"} : create_csv_raise(w, exc)
\* a cleaning job that is due is run
CleanupStep == \E t \in Tasks : clear_export_cache(t)

\* Spec with workers that do not stall and a scheduler that runs the
\* cleaning jobs that are due
SpecLive == Spec /\ WF_vars(WorkerStep) /\ WF_vars(CleanupStep)

\* requests are handled one at a time, with the filters varied
NextFilters ==
    \/ \E r \in FilterRequests : export(r)
    \/ Background

SpecFilters == Init /\ [][NextFilters]_vars

\* requests are handled one at a time, the query ids are generated
NextUuid ==
    \/ \E r \in UuidRequests : export(r)
    \/ Background

SpecUuid == Init /\ [][NextUuid]_vars

\* requests are handled one at a time, names and query ids contain "-by-"
NextNames ==
    \/ \E r \in NameRequests : export(r)
    \/ Background

SpecNames == Init /\ [][NextNames]_vars

\* requests are handled one at a time, all of them with action=download
NextDownload ==
    \/ \E r \in DownloadRequests : export(r)
    \/ Background

SpecDownload == Init /\ [][NextDownload]_vars

\* the sending of the file is a step of its own, after the job was deleted
NextStream ==
    \/ \E h \in Handlers, r \in ConcRequests : export_begin(h, r)
    \/ \E h \in Handlers : export_sendfile(h)
    \/ Background

SpecStream == Init /\ [][NextStream]_vars

\* requests are handled one at a time; the download requests carry other
\* filters than the polls
NextPoll ==
    \/ \E r \in PollRequests : export(r)
    \/ Background

SpecPoll == Init /\ [][NextPoll]_vars

\* the handlers of several requests interleave at queue.fetch_job
NextConc ==
    \/ \E h \in Handlers, r \in ConcRequests : export_fetch(h, r)
    \/ \E h \in Handlers : export_dispatch(h)
    \/ Background

SpecConc == Init /\ [][NextConc]_vars

(* ------------------------------- claims ------------------------------- *)

\* the job id a request resolves to (lines 115-116)
JobIdOf(r) == rq_id(query_id_of(r), r.requester)
\* the request passes validation
Valid(r) == validation_error(r) = None
\* the valid requests of the domain that resolve to the job id
RequestsFor(id) ==
    {r \in Requests : Valid(r) /\ Truthy(r.query_id) /\ JobIdOf(r) = id}

\* the job of the request is FINISHED and its artifact file is gone
FinishedMissing(id) ==
    jobs[id].status = "finished" /\ ~exists(jobs[id].return_value)
\* the job of the request is FINISHED and its artifact file is there
FinishedPresent(id) ==
    jobs[id].status = "finished" /\ exists(jobs[id].return_value)
\* the step pushes the job id on the queue: a production run is submitted
Submitted(id) == queue' = Append(queue, id)
\* number of entries of the sequence s equal to x
Count(s, x) == Cardinality({i \in 1..Len(s) : s[i] = x})
\* number of producer executions of the job id that are queued or running
Executions(id) ==
    Count(queue, id) + Cardinality({w \in Workers : workers[w].id = id})

C2_AtMostOneExecution ==
    \A id \in JobIds : Executions(id) <= 1

C4_ArtifactWrittenByOwnJob ==
    \A id \in JobIds :
        FinishedPresent(id) => files[jobs[id].return_value].owner = id

\* both time bounds are supplied and 'from' is later than 'to'
FromAfterTo(r) ==
    /\ Truthy(r.from) /\ Truthy(r.to)
    /\ parse_timestamp(r.from) > parse_timestamp(r.to)
\* no scope filter is present: each is missing or empty
NoScope(r) == \A v \in {r.org, r.project, r.task, r.job, r.user} : v \in {None, ""}
\* everything but the response
state == <<jobs, queue, workers, files, cleanups, now, issued, inflight>>

\* C5: a request with both time bounds and 'from' later than 'to' is
\* rejected with a validation error and creates no job, for every pair of
\* timestamps, the epoch included.
C5_FromAfterToRejected ==
    [][\A r \in FilterRequests :
         (export(r) /\ FromAfterTo(r))
            => (resp'.status = 400 /\ jobs' = jobs /\ queue' = queue)]_vars

\* the requests of the domain without any scope filter
NoScopeRequests == {r \in FilterRequests : NoScope(r)}

\* C6: a request without any scope filter is rejected with a validation
\* error; no job is created and no file is written, whatever its other
\* parameters are: every step is such a rejection or is not the handling of
\* a request without scope filter.
C6_NoScopeRejected ==
    [][\/ resp'.status = 400 /\ UNCHANGED <<jobs, queue, workers, files, cleanups>>
       \/ \A r \in NoScopeRequests : ~export(r)]_vars

\* a request without scope filter was rejected while a job record exists
C6_Witness ==
    /\ resp.status = 400
    /\ resp.detail = "One of 'org', 'project', 'task', 'job', 'user' parameter must be specified"
    /\ \E id \in JobIds : jobs[id].status = "queued"

\* C7: a request answered with a validation error changes nothing: no job
\* is enqueued, no job record is deleted or modified, no file is touched.
C7_RejectedChangesNothing ==
    [][resp'.status = 400 => UNCHANGED state]_vars

\* a request with an unknown action was rejected and the failed job of its
\* query id is still there
C7_Witness ==
    /\ resp.status = 400
    /\ resp.detail = "Unexpected action specified for the request"
    /\ jobs[rq_id("q1", "u1")].status = "failed"

\* C8: a valid request that finds its job FAILED is answered 500 with the
\* stored error text and the job record is deleted by it, so that the next
\* request for the same job id does not report the failure again.
C8_FailureReportedOnce ==
    [][(resp'.rq_id # None /\ jobs[resp'.rq_id].status = "failed")
          => /\ resp'.status = 500
             /\ resp'.detail = jobs[resp'.rq_id].exc_info
             /\ jobs'[resp'.rq_id] = Absent
             /\ \A r2 \in RequestsFor(resp'.rq_id) :
                   (Branch(r2, r2.query_id, jobs[JobIdOf(r2)]) # "failed")']_vars

\* a failure was reported and its job record is gone
C8_Witness ==
    /\ resp.status = 500
    /\ resp.found = "failed"
    /\ resp.detail \in {"store", "io", "scheduler"}
    /\ jobs[resp.rq_id] = Absent

C10_ReadyKeepsJob ==
    [][(resp'.rq_id # None /\ FinishedPresent(resp'.rq_id))
          => \A r \in RequestsFor(resp'.rq_id) :
                (r.action # "download" /\ export(r))
                   => /\ resp'.status = 201
                      /\ UNCHANGED <<jobs, queue, files, cleanups>>
                      /\ \A r2 \in RequestsFor(resp'.rq_id) :
                            r2.action = "download"
                               => (Branch(r2, r2.query_id, jobs[JobIdOf(r2)])
                                      = "download")']_vars

\* a request was answered 201 and its job is still FINISHED with its file
C10_Witness ==
    /\ resp.status = 201
    /\ resp.found = "finished"
    /\ FinishedPresent(resp.rq_id)

\* the job of the id is queued or running
InProgress(id) == jobs[id].status \in {"queued", "started"}

\* C11: polling is idempotent while the job is in progress: a valid request
\* that finds its job queued or running is answered 202 with its own query
\* id and changes neither the job records, nor the queue, nor the workers,
\* nor any file or cleanup task, so any number of such polls leave the job
\* as the first one found it.
C11_PollingIdempotent ==
    [][(resp'.rq_id # None /\ InProgress(resp'.rq_id))
          => /\ resp'.status = 202
             /\ \E u \in Users : resp'.rq_id = rq_id(resp'.query_id, u)
             /\ UNCHANGED state
             /\ \A r \in RequestsFor(resp'.rq_id) :
                   export(r) => resp'.query_id = r.query_id]_vars

\* a poll was answered 202 while its job waits in the queue, once
C11_Witness ==
    /\ resp.status = 202
    /\ resp.found = "queued"
    /\ resp.query_id = "q1"
    /\ jobs[resp.rq_id].status = "queued"
    /\ Count(queue, resp.rq_id) = 1

\* the query ids uuid.uuid4() has returned so far
IssuedIds == {Uuid(n) : n \in 1..Len(issued)}

\* C12: a valid request that finds no job under its job id submits exactly
\* one job under that id, with result_ttl and failure_ttl both equal to the
\* default retention, and is answered 202 with the query id.  The query id
\* is the caller's when one is sent; otherwise it is a new one, different
\* from every id in use, so the request finds no job and submits one.
C12_AbsentSubmitsOnce ==
    [][/\ (resp'.rq_id # None /\ jobs[resp'.rq_id] = Absent)
            => /\ Submitted(resp'.rq_id)
               /\ Count(queue', resp'.rq_id) = 1
               /\ jobs'[resp'.rq_id].status = "queued"
               /\ jobs'[resp'.rq_id].result_ttl = DEFAULT_CACHE_TTL
               /\ jobs'[resp'.rq_id].failure_ttl = DEFAULT_CACHE_TTL
               /\ \A id \in JobIds \ {resp'.rq_id} : jobs'[id] = jobs[id]
               /\ resp'.status = 202
               /\ \E u \in Users : resp'.rq_id = rq_id(resp'.query_id, u)
       /\ issued' # issued
            => /\ resp'.found = "absent"
               /\ resp'.query_id \notin SuppliedIds \cup IssuedIds
               /\ jobs[resp'.rq_id] = Absent
               /\ Submitted(resp'.rq_id)
       /\ (issued' = issued /\ resp'.rq_id # None)
            => \A r \in UuidRequests :
                  export(r) => resp'.rq_id = rq_id(r.query_id, r.requester)]_vars

\* a request without query id was given a generated one and submitted a job
\* under it
C12_Witness ==
    /\ resp.status = 202
    /\ resp.found = "absent"
    /\ resp.query_id = Uuid(Len(issued))
    /\ jobs[resp.rq_id].status = "queued"
    /\ jobs[resp.rq_id].failure_ttl = DEFAULT_CACHE_TTL

\* C13 as stated: every response to a valid request carries the query id of
\* the request, whatever the outcome: 202, 201, file download or 500.
C13_EveryResponseCarriesQueryId ==
    [][\A r \in UuidRequests :
         (export(r) /\ Valid(r)) => resp'.query_id = query_id_of(r)]_vars

\* C13 amended: a 202 response to a valid request carries the query id of
\* the request, the generated one when the request had none; the other
\* responses (201, file download, 500) carry no query id and are given only
\* to requests that sent the query id themselves.
C13_AcceptedCarriesQueryId ==
    [][\A r \in UuidRequests :
         (export(r) /\ Valid(r))
            => IF resp'.status = 202
               THEN resp'.query_id = query_id_of(r)
               ELSE /\ resp'.status \in {200, 201, 500}
                    /\ resp'.query_id = None
                    /\ Truthy(r.query_id)]_vars

\* a request that sent back a generated query id was answered 201, without
\* the query id
C13_Witness ==
    /\ resp.status = 201
    /\ resp.query_id = None
    /\ resp.rq_id = rq_id(Uuid(1), "u1")

\* C14: the job id is a function of (query id, user) and two requests with
\* different query ids never resolve to the same job id, also when the
\* query id or the user name contains "-by-": the job that was submitted
\* for one query id is not the job of a request with another query id.
C14_DistinctQueryIdsDistinctJobs ==
    \A r1, r2 \in NameRequests :
        (/\ jobs[JobIdOf(r1)] # Absent
         /\ jobs[JobIdOf(r1)].out = output_filename(r1.query_id)
         /\ r1.query_id # r2.query_id)
            => JobIdOf(r2) # JobIdOf(r1)

\* C15: a cleanup task carries the ctime its producer run read from the
\* file it wrote, and when it fires it deletes the file only if the file
\* exists and still has that ctime; if the file was regenerated since, the
\* firing changes no file and the regenerated file survives.  This holds
\* for every interleaving of production runs and firings on the same path.
C15_CleanupGuardedByCtime ==
    [][/\ \A t \in cleanups' \ cleanups :
             exists(t.file_path) /\ t.file_ctime = files[t.file_path].ctime
       /\ \A t \in cleanups \ cleanups' :
             files' = IF exists(t.file_path) /\ files[t.file_path].ctime = t.file_ctime
                      THEN [files EXCEPT ![t.file_path] = NoFile]
                      ELSE files]_vars

\* a cleanup task is due for a file that a later production run has
\* regenerated since the task was registered
C15_Witness ==
    \E t \in cleanups :
        /\ exists(t.file_path)
        /\ files[t.file_path].complete
        /\ files[t.file_path].ctime > t.file_ctime

\* C16: every file a producer run has written (in full) is eventually
\* deleted once the cleaning jobs are run, whether or not any caller polls
\* or downloads, and also when a later run regenerates the file at the same
\* path.
C16_EveryFileEventuallyDeleted ==
    \A q \in SuppliedIds :
        (exists(output_filename(q)) /\ files[output_filename(q)].complete)
            ~> ~exists(output_filename(q))

\* the rows of the store that satisfy every filter that was supplied:
\* equality on each scope filter, timestamp >= from, timestamp <= to
ExpectedRows(qp) ==
    {e \in Events :
        /\ \A k \in ScopeParams : Truthy(qp[k]) => e[k] = qp[k]
        /\ qp.from # NoneTs => e.timestamp >= qp.from[1]
        /\ qp.to # NoneTs => e.timestamp <= qp.to[1]}

\* C17: round trip: the file sent to a download request for the query id of
\* a submitted query is complete and its rows are exactly the rows of the
\* store that satisfy every filter the query supplied.
C17_DownloadMatchesFilters ==
    [][resp'.status = 200
          => /\ resp'.file.complete
             /\ csv_rows(resp'.file) = ExpectedRows(jobs[resp'.rq_id].args)]_vars

\* C18: when a production run fails, the exception is re-raised, so the job
\* ends FAILED with the error stored; the run registers no cleanup task; no
\* response is produced by the failure, the caller learns of it from the
\* next request for the job id, which takes the failed branch.
C18_FailureStoredNoCleanup ==
    [][resp' = NoResp
          => \A w \in Workers, exc \in {"store", "io", "scheduler"} :
                create_csv_raise(w, exc)
                   => /\ jobs'[workers[w].id].status = "failed"
                      /\ jobs'[workers[w].id].exc_info = exc
                      /\ cleanups' = cleanups
                      /\ \A r \in RequestsFor(workers[w].id) :
                            (Branch(r, r.query_id, jobs[JobIdOf(r)]) = "failed")']_vars

\* the first production run failed after writing its file: the job is
\* FAILED with the error stored and there is no cleanup task
C18_Witness ==
    \E id \in JobIds :
        /\ jobs[id].status = "failed"
        /\ jobs[id].exc_info = "scheduler"
        /\ files[jobs[id].out].owner = id
        /\ now = 1
        /\ cleanups = {}
        /\ resp = NoResp

\* C19: a download request that finds its job FINISHED and the file gone
\* does not end in an error: it is answered 202 with its query id, never
\* with a 4xx or 5xx status.
C19_EvictedDownloadNotError ==
    [][(resp'.rq_id # None /\ FinishedMissing(resp'.rq_id))
          => \A r \in DownloadRequests :
                (export(r) /\ Valid(r))
                   => /\ resp'.status = 202
                      /\ resp'.query_id = r.query_id
                      /\ resp'.detail = None]_vars

\* a download request found its job FINISHED without the file and was
\* answered 202 with its query id
C19_Witness ==
    /\ resp.status = 202
    /\ resp.found = "finished"
    /\ resp.query_id = "q1"
    /\ resp.file = NoFile
    /\ ~exists(output_filename(resp.query_id))

\* the status codes a request that found the job in the given state is
\* answered with
StatusesFor(found) ==
    CASE found \in {"absent", "queued", "started"} -> {202}
      [] found = "finished" -> {200, 201, 202}
      [] found = "failed" -> {500}

\* C20: no request waits for the production: in every state of the jobs,
\* the workers and the files, every request of the domain can be handled
\* at once, as one step of the handler that needs no step of a worker
\* before it, and the response it is given is one for the state of the job
\* that it found.
C20_RequestNeverWaits ==
    /\ \A r \in Requests : ENABLED export(r)
    /\ resp.rq_id # None => resp.status \in StatusesFor(resp.found)

\* a request was answered while a worker is in the middle of the production
\* run of its job: the file is written, the run has not returned
C20_Witness ==
    /\ resp.status = 202
    /\ resp.found = "started"
    /\ \E w \in Workers : workers[w].id = resp.rq_id /\ workers[w].pc = "written"

\* the conditions the filters determine: one equality per non-empty scope
\* filter, `timestamp >= from` iff 'from' is populated and `timestamp <= to`
\* iff 'to' is populated
ExpectedConditions(qp) ==
    {<<k, "=", qp[k]>> : k \in {k \in ScopeParams : qp[k] \notin {None, ""}}}
    \cup (IF qp.from # NoneTs THEN {<<"timestamp", ">=", qp.from[1]>>} ELSE {})
    \cup (IF qp.to # NoneTs THEN {<<"timestamp", "<=", qp.to[1]>>} ELSE {})
\* the bound parameters the filters determine
ExpectedParameters(qp) ==
    {<<k, qp[k]>> : k \in {k \in ScopeParams : qp[k] \notin {None, ""}}}
    \cup (IF qp.from # NoneTs THEN {<<"from", qp.from[1]>>} ELSE {})
    \cup (IF qp.to # NoneTs THEN {<<"to", qp.to[1]>>} ELSE {})

\* C21: the conditions and the bound parameters of the query a producer
\* run builds are exactly those the filters of its job determine: one
\* equality per non-empty scope filter, `timestamp >= from` iff 'from' is
\* populated, `timestamp <= to` iff 'to' is populated; this holds of the
\* query behind every file a run has written.
C21_ConditionsMatchFilters ==
    \A p \in Paths :
        exists(p)
           => /\ conditions(files[p].args) = ExpectedConditions(files[p].args)
              /\ parameters(files[p].args) = ExpectedParameters(files[p].args)

\* C22: a producer run that succeeds has written its file before it reads
\* the ctime; the step that ends it registers at most one new cleanup task,
\* for its path, with the ctime it read and a delay equal to the retention,
\* cancels none, leaves the files alone and returns the path as the result
\* of the job.  So a job becomes FINISHED only together with its cleanup
\* task.
C22_FinishedRegistersCleanup ==
    [][resp' = NoResp
          => \A w \in Workers :
                (/\ workers[w].pc # "idle"
                 /\ jobs[workers[w].id].status # "finished"
                 /\ jobs'[workers[w].id].status = "finished")
                   => /\ workers[w].pc = "written"
                      /\ exists(workers[w].out)
                      /\ [file_path |-> workers[w].out,
                          file_ctime |-> files[workers[w].out].ctime,
                          time_delta |-> DEFAULT_CACHE_TTL] \in cleanups'
                      /\ cleanups \subseteq cleanups'
                      /\ Cardinality(cleanups' \ cleanups) <= 1
                      /\ files' = files
                      /\ jobs'[workers[w].id].return_value = workers[w].out]_vars

\* a production run has just ended well: its job is FINISHED with the path
\* as result and the cleanup task for the file it wrote is registered
C22_Witness ==
    \E id \in JobIds :
        /\ jobs[id].status = "finished"
        /\ jobs[id].return_value = jobs[id].out
        /\ files[jobs[id].out].owner = id
        /\ files[jobs[id].out].complete
        /\ cleanups = {[file_path |-> jobs[id].out,
                        file_ctime |-> files[jobs[id].out].ctime,
                        time_delta |-> DEFAULT_CACHE_TTL]}
        /\ resp = NoResp
        /\ \A w \in Workers : workers[w] = Idle

\* C23: after a download request was sent the file of a FINISHED job, the
\* record of the job is gone and stays gone until the next request for the
\* job id; that request does not get the delivered result again: it finds
\* no job, submits a new production run and is answered 202.
C23_NoReplayAfterDownload ==
    [][/\ resp'.status = 200
            => /\ jobs'[resp'.rq_id] = Absent
               /\ \A r \in RequestsFor(resp'.rq_id) :
                     (Branch(r, r.query_id, jobs[JobIdOf(r)]) = "submit")'
       /\ \A id \in JobIds :
             (jobs[id] = Absent /\ jobs'[id] # Absent)
                => /\ resp'.rq_id = id
                   /\ resp'.found = "absent"
                   /\ resp'.status = 202
                   /\ Submitted(id)
                   /\ jobs'[id].status = "queued"]_vars

\* a download request was sent the file under the default name; the job
\* record is gone, nothing is queued under its id and the file is still there
C23_Witness ==
    /\ resp.status = 200
    /\ resp.filename = "logs_%Y_%m_%d_%H_%M_%S.csv"
    /\ jobs[resp.rq_id] = Absent
    /\ Count(queue, resp.rq_id) = 0
    /\ resp.file # NoFile

\* C24: whenever a download request has deleted the job record, the file is
\* still there when it is sent, whatever cleanup task fires in between: no
\* handler that deleted its job is left without the file, and none is
\* answered without it.
C24_DeletedImpliesDelivered ==
    /\ \A h \in Handlers :
          inflight[h].pc = "sending" => exists(inflight[h].rq_job.return_value)
    /\ resp.status # 404

C26_HandlerLeavesFilesAlone ==
    [][/\ resp' # NoResp => (files' = files /\ cleanups' = cleanups)
       /\ files' # files => (workers' # workers \/ cleanups' # cleanups)
       /\ \A p \in Paths :
             (exists(p) /\ files'[p] = NoFile)
                => \E t \in cleanups \ cleanups' :
                      t.file_path = p /\ t.file_ctime = files[p].ctime
       /\ resp'.status = 200
            => \E p \in Paths : files'[p] = resp'.file /\ files'[p] # NoFile]_vars

\* a download request was sent the file; the file is still on disk and its
\* cleanup task is still scheduled
C26_Witness ==
    /\ resp.status = 200
    /\ \E t \in cleanups :
          /\ files[t.file_path] = resp.file
          /\ t.file_ctime = resp.file.ctime
          /\ resp.file.complete

====
